---- MODULE Spec2Model ----
(***************************************************************************)
(* TradingBot (trading_bot.py): the control loop run(), the shutdown       *)
(* request graceful_shutdown(), and the rebalancing arithmetic of one      *)
(* cycle.  The exchange client is the environment: each awaited call is a  *)
(* position of the run() coroutine (pc) at which the call's outcome (a     *)
(* value, None, an Exception, a KeyboardInterrupt) is chosen.  Between two *)
(* awaits the coroutine runs without interleaving, so one action carries   *)
(* the code from one await to the next.                                    *)
(*                                                                         *)
(* Amounts are integers; the true division of line 126 is kept as the      *)
(* exact fraction numerator/denominator (binary floating-point rounding of *)
(* the quotient is not represented).                                       *)
(***************************************************************************)
EXTENDS Integers, Sequences, FiniteSets, Bags, TLC

VARIABLES
    pc,                   \* the await at which run() is suspended
    shutdown_requested,   \* self.shutdown_requested
    frame,                \* the local variables of run() (record, by name)
    pending,              \* exception in flight while the inner finally sleeps
    log,                  \* entries passed to self.logger.log: the bag of all of
                          \* them, and the most recent one logged by run()
    calls,                \* number of calls made on exchange_client, per method
    cycle,                \* number of loop iterations started
    cyc,                  \* calls and ERROR entries of the current iteration
    sleeps,               \* number of inter-cycle sleeps that returned
    sleep_left,           \* ticks the inter-cycle sleep in progress has yet to wait
    ext_calls,            \* graceful_shutdown invocations made from outside run()
    ext_inflight,         \* of those, the ones still awaiting disconnect()
    ext_in_sleep          \* an outside invocation was made during an inter-cycle
                          \* sleep

vars == <<pc, shutdown_requested, frame, pending, log, calls, cycle,
          cyc, sleeps, sleep_left, ext_calls, ext_inflight, ext_in_sleep>>

extvars == <<ext_calls, ext_inflight, ext_in_sleep>>

----------------------------------------------------------------------------
(* Bounds of the exploration *)

MaxCycles == 2
MaxShutdownCalls == 2

(* self.config.wait_time, the length of the inter-cycle sleep, in ticks *)
WaitTicks == 1

(* Values the exchange client may return.  Prices include the values the  *)
(* code does not reject (0 and a negative); positions are the quantity     *)
(* returned by get_short_position, of either sign.                         *)
Prices == {-100, 0, 3, 100}
Positions == {-10, -8, 8, 10, 333}

----------------------------------------------------------------------------
(* Strategy parameters *)

TARGET_SHORT_USD == 1000
MIN_ORDER_USD == 5

----------------------------------------------------------------------------
(* Values of the locals *)

Unbound == [tag |-> "unbound"]
NoneVal == [tag |-> "None"]
Num(v) == [tag |-> "num", val |-> v]
Frac(n, d) == [tag |-> "frac", num |-> n, den |-> d]

Abs(x) == IF x < 0 THEN -x ELSE x

Methods == {"connect", "disconnect", "get_token_price", "get_short_position",
            "place_market_order"}

Called(c, m) == [c EXCEPT ![m] = @ + 1]

(* A log entry: the level and the parts of the formatted message (the     *)
(* numbers printed in a message are left out).                             *)
Entry(level, msg) == <<level, msg>>

Logged(l, level, msg) ==
    [entries |-> l.entries (+) SetToBag({Entry(level, msg)}),
     last |-> Entry(level, msg)]

Count(level, msg) == CopiesIn(Entry(level, msg), log.entries)

(* the record kept of one iteration: its calls, its ERROR entries and the  *)
(* values its two reads returned                                           *)
NewCyc == [get_token_price |-> 0, get_short_position |-> 0,
           place_market_order |-> 0, errors |-> 0,
           price |-> Unbound, qty |-> Unbound]

----------------------------------------------------------------------------
(* The decision of one cycle, lines 117-126 *)

(* the price left out of the product *)
PositionUsdQtyOnly(qty, price) == qty

PositionUsd(qty, price) == qty * price

(* the operands of the difference exchanged *)
PositionDeltaSwapped(usd) == usd - TARGET_SHORT_USD

PositionDelta(usd) == TARGET_SHORT_USD - usd

(* the threshold left out *)
NeedsOrderAnyDeviation(delta) == Abs(delta) > 0

NeedsOrder(delta) == Abs(delta) > MIN_ORDER_USD

(* the two sides exchanged *)
OrderSideReversed(delta) == IF delta > 0 THEN "buy" ELSE "sell"

OrderSide(delta) == IF delta > 0 THEN "sell" ELSE "buy"

OrderSizeUsd(delta) == Abs(delta)

OrderSizeQty(size_usd, price) == Frac(size_usd, price)

----------------------------------------------------------------------------
Init ==
    /\ pc = "start"
    /\ shutdown_requested = FALSE
    /\ frame = [current_price |-> Unbound, current_position_qty |-> Unbound,
                current_position_usd |-> Unbound, position_delta_usd |-> Unbound,
                order_side |-> "unbound", order_size_usd |-> Unbound,
                order_size_qty |-> Unbound]
    /\ pending = "none"
    /\ log = Logged([entries |-> EmptyBag], "INFO",
                     <<"TradingBot initialized successfully.">>)
    /\ calls = [m \in Methods |-> 0]
    /\ cycle = 0
    /\ cyc = NewCyc
    /\ sleeps = 0
    /\ sleep_left = 0
    /\ ext_calls = 0
    /\ ext_inflight = 0
    /\ ext_in_sleep = FALSE

----------------------------------------------------------------------------
(* graceful_shutdown, lines 71-80 *)

(* lines 73-77: log, set the flag, call disconnect; the caller then awaits *)
GracefulShutdownCall(l, reason) ==
    /\ log' = Logged(l, "INFO", <<"Starting graceful shutdown: ">> \o reason)
    /\ shutdown_requested' = TRUE
    /\ calls' = Called(calls, "disconnect")

(* no outer finally: run() ends without its last entry *)
FinishSilent(l) ==
    /\ log' = l
    /\ pc' = "done"

(* line 158, the outer finally: the last statement of run() *)
Finish(l) ==
    /\ log' = Logged(l, "INFO", <<"Bot shutdown complete.">>)
    /\ pc' = "done"

(* the handler logs the error and leaves out the call of graceful_shutdown *)
CriticalHandlerNoShutdown(l, e) ==
    /\ Finish(Logged(Logged(l, "ERROR", <<"Critical error: ", e>>),
                     "ERROR", <<"Traceback: ", e>>))
    /\ UNCHANGED <<shutdown_requested, calls>>

(* lines 153-156: except Exception of the outer try *)
CriticalHandler(l, e) ==
    /\ GracefulShutdownCall(
           Logged(Logged(l, "ERROR", <<"Critical error: ", e>>),
                  "ERROR", <<"Traceback: ", e>>),
           <<"Critical error: ", e>>)
    /\ pc' = "gs_disconnect"

(* lines 150-152: except KeyboardInterrupt of the outer try *)
InterruptHandler(l) ==
    /\ GracefulShutdownCall(Logged(l, "INFO", <<"Bot stopped by user">>),
                            <<"User interruption (Ctrl+C)">>)
    /\ pc' = "gs_disconnect"

----------------------------------------------------------------------------
(* run, lines 83-158 *)

(* lines 92-100: the configuration banner, then connect() is awaited *)
RunStart ==
    /\ pc = "start"
    /\ UNCHANGED sleep_left
    /\ log' = Logged(Logged(log, "INFO", <<"=== Custom Trading Configuration ===">>),
                     "INFO", <<"====================================">>)
    /\ calls' = Called(calls, "connect")
    /\ pc' = "connect"
    /\ UNCHANGED <<shutdown_requested, frame, pending, cycle, cyc, sleeps, extvars>>

(* while True: the flag is not read at the top of the loop *)
LoopTopIgnoresFlag(l) ==
    /\ cycle < MaxCycles
    /\ cycle' = cycle + 1
    /\ cyc' = [NewCyc EXCEPT !.get_token_price = 1]
    /\ calls' = Called(calls, "get_token_price")
    /\ pc' = "get_price"
    /\ log' = l
    /\ UNCHANGED shutdown_requested

(* line 104: the loop condition, reached from the settle wait and from the *)
(* end of every inter-cycle sleep; line 107 starts the next iteration      *)
LoopTop(l) ==
    IF shutdown_requested
    THEN /\ Finish(l)
         /\ UNCHANGED <<shutdown_requested, calls, cycle, cyc>>
    ELSE /\ cycle < MaxCycles
         /\ cycle' = cycle + 1
         /\ cyc' = [NewCyc EXCEPT !.get_token_price = 1]
         /\ calls' = Called(calls, "get_token_price")
         /\ pc' = "get_price"
         /\ log' = l
         /\ UNCHANGED shutdown_requested

(* line 101 left out: the loop is entered as soon as connect() returns *)
ConnectReturnNoSettle ==
    /\ pc = "connect"
    /\ UNCHANGED sleep_left
    /\ LoopTop(log)
    /\ UNCHANGED <<frame, pending, sleeps, extvars>>

(* line 100 returns; line 101 awaits the settle wait *)
ConnectReturn ==
    /\ pc = "connect"
    /\ UNCHANGED sleep_left
    /\ pc' = "settle"
    /\ UNCHANGED <<shutdown_requested, frame, pending, log, calls, cycle, cyc,
                   sleeps, extvars>>

(* the connect error logged and the settle wait entered all the same *)
ConnectRaiseContinue ==
    /\ pc = "connect"
    /\ UNCHANGED sleep_left
    /\ log' = Logged(log, "ERROR", <<"Critical error: ", "connect failed">>)
    /\ pc' = "settle"
    /\ UNCHANGED <<shutdown_requested, frame, pending, calls, cycle, cyc, sleeps,
                   extvars>>

ConnectRaise ==
    /\ pc = "connect"
    /\ UNCHANGED sleep_left
    /\ CriticalHandler(log, "connect failed")
    /\ UNCHANGED <<frame, pending, cycle, cyc, sleeps, extvars>>

ConnectInterrupt ==
    /\ pc = "connect"
    /\ UNCHANGED sleep_left
    /\ InterruptHandler(log)
    /\ UNCHANGED <<frame, pending, cycle, cyc, sleeps, extvars>>

SettleReturn ==
    /\ pc = "settle"
    /\ UNCHANGED sleep_left
    /\ LoopTop(log)
    /\ UNCHANGED <<frame, pending, sleeps, extvars>>

SettleRaise ==
    /\ pc = "settle"
    /\ UNCHANGED sleep_left
    /\ CriticalHandler(log, "settle wait failed")
    /\ UNCHANGED <<frame, pending, cycle, cyc, sleeps, extvars>>

SettleInterrupt ==
    /\ pc = "settle"
    /\ UNCHANGED sleep_left
    /\ InterruptHandler(log)
    /\ UNCHANGED <<frame, pending, cycle, cyc, sleeps, extvars>>

(* lines 145-148, the inner finally: log, then await the inter-cycle sleep *)
EnterSleep(l) ==
    /\ log' = Logged(l, "INFO", <<"--- Sleeping">>)
    /\ sleep_left' = WaitTicks
    /\ pc' = "sleep"

(* the except clause placed around the loop: the error ends run() *)
CycleErrorEndsLoop(l, e, c) ==
    /\ Finish(Logged(l, "ERROR", <<"An error occurred in the trading loop: ", e>>))
    /\ cyc' = [c EXCEPT !.errors = @ + 1]
    /\ UNCHANGED <<calls, sleep_left>>

(* lines 142-143, except Exception of the inner try, then the finally *)
CycleError(l, e, c) ==
    /\ EnterSleep(Logged(l, "ERROR", <<"An error occurred in the trading loop: ", e>>))
    /\ cyc' = [c EXCEPT !.errors = @ + 1]
    /\ UNCHANGED calls

(* a KeyboardInterrupt raised inside the inner try passes the except       *)
(* Exception clause; the finally still sleeps before it propagates         *)
CycleInterrupt ==
    /\ pending' = "KeyboardInterrupt"
    /\ EnterSleep(log)
    /\ UNCHANGED <<shutdown_requested, frame, calls, cycle, cyc, sleeps, extvars>>

(* a price already held from an earlier cycle is kept instead of the new one *)
PriceReturnCached(v) ==
    /\ pc = "get_price"
    /\ frame' = IF frame.current_price.tag = "num"
                THEN frame
                ELSE [frame EXCEPT !.current_price = Num(v)]
    /\ log' = Logged(log, "INFO", <<"Current price">>)
    /\ calls' = Called(calls, "get_short_position")
    /\ cyc' = [cyc EXCEPT !.get_short_position = @ + 1, !.price = Num(v)]
    /\ pc' = "get_position"
    /\ UNCHANGED sleep_left
    /\ UNCHANGED <<shutdown_requested, pending, cycle, sleeps, extvars>>

(* lines 107-113: a price is returned; the position is requested *)
PriceReturn(v) ==
    /\ pc = "get_price"
    /\ frame' = [frame EXCEPT !.current_price = Num(v)]
    /\ log' = Logged(log, "INFO", <<"Current price">>)
    /\ calls' = Called(calls, "get_short_position")
    /\ cyc' = [cyc EXCEPT !.get_short_position = @ + 1, !.price = Num(v)]
    /\ pc' = "get_position"
    /\ UNCHANGED sleep_left
    /\ UNCHANGED <<shutdown_requested, pending, cycle, sleeps, extvars>>

(* lines 108-109: None is returned *)
PriceReturnNone ==
    /\ pc = "get_price"
    /\ frame' = [frame EXCEPT !.current_price = NoneVal]
    /\ CycleError(log, "Could not fetch price", [cyc EXCEPT !.price = NoneVal])
    /\ UNCHANGED <<shutdown_requested, pending, cycle, sleeps, extvars>>

(* the error of the price read swallowed without a log entry *)
PriceRaiseSilent ==
    /\ pc = "get_price"
    /\ EnterSleep(log)
    /\ UNCHANGED <<shutdown_requested, frame, pending, calls, cycle, cyc, sleeps,
                   extvars>>

PriceRaise ==
    /\ pc = "get_price"
    /\ CycleError(log, "get_token_price failed", cyc)
    /\ UNCHANGED <<shutdown_requested, frame, pending, cycle, sleeps, extvars>>

PriceInterrupt ==
    /\ pc = "get_price"
    /\ CycleInterrupt

(* lines 113-140: a position is returned; the decision is taken *)
PositionReturn(q) ==
    /\ pc = "get_position"
    /\ LET price == frame.current_price.val
           usd == PositionUsd(q, price)
           delta == PositionDelta(usd)
           f1 == [frame EXCEPT !.current_position_qty = Num(q),
                               !.current_position_usd = Num(usd),
                               !.position_delta_usd = Num(delta)]
           l1 == Logged(log, "INFO", <<"Current short position">>)
           f2 == [f1 EXCEPT !.order_side = OrderSide(delta),
                            !.order_size_usd = Num(OrderSizeUsd(delta))]
       IN  IF NeedsOrder(delta)
           THEN IF price = 0
                THEN /\ frame' = f2
                     /\ CycleError(l1, "division by zero", [cyc EXCEPT !.qty = Num(q)])
                ELSE /\ frame' = [f2 EXCEPT !.order_size_qty =
                                     OrderSizeQty(OrderSizeUsd(delta), price)]
                     /\ log' = Logged(l1, "WARNING",
                                      <<"Target deviation detected. Placing order">>)
                     /\ calls' = Called(calls, "place_market_order")
                     /\ cyc' = [cyc EXCEPT !.place_market_order = @ + 1,
                                            !.qty = Num(q)]
                     /\ pc' = "place_order"
                     /\ UNCHANGED sleep_left
           ELSE /\ frame' = f1
                /\ EnterSleep(Logged(l1, "INFO",
                       <<"Position is within target range. No action needed.">>))
                /\ cyc' = [cyc EXCEPT !.qty = Num(q)]
                /\ UNCHANGED calls
    /\ UNCHANGED <<shutdown_requested, pending, cycle, sleeps, extvars>>

(* lines 114-115: None is returned *)
PositionReturnNone ==
    /\ pc = "get_position"
    /\ frame' = [frame EXCEPT !.current_position_qty = NoneVal]
    /\ CycleError(log, "Could not fetch position", [cyc EXCEPT !.qty = NoneVal])
    /\ UNCHANGED <<shutdown_requested, pending, cycle, sleeps, extvars>>

PositionRaise ==
    /\ pc = "get_position"
    /\ CycleError(log, "get_short_position failed", cyc)
    /\ UNCHANGED <<shutdown_requested, frame, pending, cycle, sleeps, extvars>>

PositionInterrupt ==
    /\ pc = "get_position"
    /\ CycleInterrupt

(* lines 132-137, then the finally *)
OrderReturn ==
    /\ pc = "place_order"
    /\ EnterSleep(Logged(log, "INFO", <<"Market order placed successfully!">>))
    /\ UNCHANGED <<shutdown_requested, frame, pending, calls, cycle, cyc, sleeps,
                   extvars>>

OrderRaise ==
    /\ pc = "place_order"
    /\ CycleError(log, "place_market_order failed", cyc)
    /\ UNCHANGED <<shutdown_requested, frame, pending, cycle, sleeps, extvars>>

OrderInterrupt ==
    /\ pc = "place_order"
    /\ CycleInterrupt

(* line 148 returns: a pending KeyboardInterrupt now leaves the inner try  *)
(* and reaches line 150; otherwise the loop condition is evaluated         *)
SleepReturn ==
    /\ pc = "sleep"
    /\ sleep_left = 0
    /\ UNCHANGED sleep_left
    /\ sleeps' = sleeps + 1
    /\ pending' = "none"
    /\ IF pending = "KeyboardInterrupt"
       THEN /\ InterruptHandler(log)
            /\ UNCHANGED <<cycle, cyc>>
       ELSE LoopTop(log)
    /\ UNCHANGED <<frame, extvars>>

(* line 148: one tick of the wait passes *)
Tick ==
    /\ pc = "sleep"
    /\ sleep_left > 0
    /\ sleep_left' = sleep_left - 1
    /\ UNCHANGED <<pc, shutdown_requested, frame, pending, log, calls, cycle, cyc,
                   sleeps, extvars>>

(* line 148 raises: the error replaces a pending one and reaches line 153 *)
SleepRaise ==
    /\ pc = "sleep"
    /\ sleep_left' = 0
    /\ pending' = "none"
    /\ CriticalHandler(log, "sleep failed")
    /\ UNCHANGED <<frame, cycle, cyc, sleeps, extvars>>

SleepInterrupt ==
    /\ pc = "sleep"
    /\ sleep_left' = 0
    /\ pending' = "none"
    /\ InterruptHandler(log)
    /\ UNCHANGED <<frame, cycle, cyc, sleeps, extvars>>

(* lines 77-78 inside run()'s own graceful_shutdown, then line 158 *)
GsDisconnectReturn ==
    /\ pc = "gs_disconnect"
    /\ UNCHANGED sleep_left
    /\ Finish(Logged(log, "INFO", <<"Graceful shutdown completed">>))
    /\ UNCHANGED <<shutdown_requested, frame, pending, calls, cycle, cyc, sleeps,
                   extvars>>

(* no except clause: the disconnect error leaves graceful_shutdown unlogged *)
GsDisconnectRaiseUnlogged ==
    /\ pc = "gs_disconnect"
    /\ Finish(log)
    /\ UNCHANGED <<shutdown_requested, frame, pending, calls, cycle, cyc, sleeps,
                   sleep_left, extvars>>

(* lines 79-80, then line 158 *)
GsDisconnectRaise ==
    /\ pc = "gs_disconnect"
    /\ UNCHANGED sleep_left
    /\ Finish(Logged(log, "ERROR",
                     <<"Error during graceful shutdown: ", "disconnect failed">>))
    /\ UNCHANGED <<shutdown_requested, frame, pending, calls, cycle, cyc, sleeps,
                   extvars>>

(* a KeyboardInterrupt out of disconnect leaves run() through line 158 *)
GsDisconnectInterrupt ==
    /\ pc = "gs_disconnect"
    /\ UNCHANGED sleep_left
    /\ Finish(log)
    /\ UNCHANGED <<shutdown_requested, frame, pending, calls, cycle, cyc, sleeps,
                   extvars>>

----------------------------------------------------------------------------
(* graceful_shutdown invoked by another task while run() is suspended *)

(* the reason only reaches the log; the default of line 71 stands for all *)
ExtReasons == {<<"Unknown">>}

ExtLogged(l, level, msg) ==
    [l EXCEPT !.entries = @ (+) SetToBag({Entry(level, msg)})]

(* lines 73-77 *)
ExtShutdown(reason) ==
    /\ pc \notin {"start", "done"}
    /\ ext_calls < MaxShutdownCalls
    /\ UNCHANGED sleep_left
    /\ log' = ExtLogged(log, "INFO", <<"Starting graceful shutdown: ">> \o reason)
    /\ shutdown_requested' = TRUE
    /\ calls' = Called(calls, "disconnect")
    /\ ext_calls' = ext_calls + 1
    /\ ext_inflight' = ext_inflight + 1
    /\ ext_in_sleep' = (ext_in_sleep \/ pc = "sleep")
    /\ UNCHANGED <<pc, frame, pending, cycle, cyc, sleeps>>

(* line 78 *)
ExtDisconnectReturn ==
    /\ ext_inflight > 0
    /\ UNCHANGED sleep_left
    /\ ext_inflight' = ext_inflight - 1
    /\ log' = ExtLogged(log, "INFO", <<"Graceful shutdown completed">>)
    /\ UNCHANGED <<pc, shutdown_requested, frame, pending, calls, cycle, cyc,
                   sleeps, ext_calls, ext_in_sleep>>

(* lines 79-80 *)
ExtDisconnectRaise ==
    /\ ext_inflight > 0
    /\ UNCHANGED sleep_left
    /\ ext_inflight' = ext_inflight - 1
    /\ log' = ExtLogged(log, "ERROR",
                        <<"Error during graceful shutdown: ", "disconnect failed">>)
    /\ UNCHANGED <<pc, shutdown_requested, frame, pending, calls, cycle, cyc,
                   sleeps, ext_calls, ext_in_sleep>>

----------------------------------------------------------------------------
Next ==
    \/ RunStart
    \/ ConnectReturn
    \/ ConnectRaise
    \/ ConnectInterrupt
    \/ SettleReturn
    \/ SettleRaise
    \/ SettleInterrupt
    \/ \E v \in Prices : PriceReturn(v)
    \/ PriceReturnNone
    \/ PriceRaise
    \/ PriceInterrupt
    \/ \E q \in Positions : PositionReturn(q)
    \/ PositionReturnNone
    \/ PositionRaise
    \/ PositionInterrupt
    \/ OrderReturn
    \/ OrderRaise
    \/ OrderInterrupt
    \/ Tick
    \/ SleepReturn
    \/ SleepRaise
    \/ SleepInterrupt
    \/ GsDisconnectReturn
    \/ GsDisconnectRaise
    \/ GsDisconnectInterrupt
    \/ \E reason \in ExtReasons : ExtShutdown(reason)
    \/ ExtDisconnectReturn
    \/ ExtDisconnectRaise

Spec == Init /\ [][Next]_vars

(* the steps of run(): every await it is suspended at yields an outcome *)
RunNext ==
    \/ RunStart
    \/ ConnectReturn \/ ConnectRaise \/ ConnectInterrupt
    \/ SettleReturn \/ SettleRaise \/ SettleInterrupt
    \/ \E v \in Prices : PriceReturn(v)
    \/ PriceReturnNone \/ PriceRaise \/ PriceInterrupt
    \/ \E q \in Positions : PositionReturn(q)
    \/ PositionReturnNone \/ PositionRaise \/ PositionInterrupt
    \/ OrderReturn \/ OrderRaise \/ OrderInterrupt
    \/ Tick \/ SleepReturn \/ SleepRaise \/ SleepInterrupt
    \/ GsDisconnectReturn \/ GsDisconnectRaise \/ GsDisconnectInterrupt

(* readings that take a cycle down each of its three ways out of the       *)
(* position read: a zero price (division error), a position off target    *)
(* (order) and a position on target (no action)                            *)
LivePrices == {0, 100}
LivePositions == {8, 10}

(* Next with the readings drawn from LivePrices and LivePositions *)
FairNext ==
    \/ RunStart
    \/ ConnectReturn
    \/ ConnectRaise
    \/ ConnectInterrupt
    \/ SettleReturn
    \/ SettleRaise
    \/ SettleInterrupt
    \/ \E v \in LivePrices : PriceReturn(v)
    \/ PriceReturnNone
    \/ PriceRaise
    \/ PriceInterrupt
    \/ \E q \in LivePositions : PositionReturn(q)
    \/ PositionReturnNone
    \/ PositionRaise
    \/ PositionInterrupt
    \/ OrderReturn
    \/ OrderRaise
    \/ OrderInterrupt
    \/ Tick
    \/ SleepReturn
    \/ SleepRaise
    \/ SleepInterrupt
    \/ GsDisconnectReturn
    \/ GsDisconnectRaise
    \/ GsDisconnectInterrupt
    \/ \E reason \in ExtReasons : ExtShutdown(reason)
    \/ ExtDisconnectReturn
    \/ ExtDisconnectRaise

(* every gateway call and every sleep of run() eventually ends *)
FairSpec == Init /\ [][FairNext]_vars /\ WF_vars(RunNext)

TypeOK ==
    /\ pc \in {"start", "connect", "settle", "get_price", "get_position",
               "place_order", "sleep", "gs_disconnect", "done"}
    /\ shutdown_requested \in BOOLEAN
    /\ pending \in {"none", "KeyboardInterrupt"}
    /\ cycle \in 0..MaxCycles
    /\ sleeps \in 0..MaxCycles
    /\ sleep_left \in 0..WaitTicks
    /\ ext_calls \in 0..MaxShutdownCalls
    /\ ext_inflight \in 0..ext_calls

----------------------------------------------------------------------------
(* Quantities read off the state *)

LevelCount(l, level) ==
    BagCardinality([e \in {x \in DOMAIN l.entries : x[1] = level} |-> l.entries[e]])

(* number of graceful_shutdown invocations so far, by run() or from outside *)
GsInvocations ==
    BagCardinality([e \in {x \in DOMAIN log.entries :
                              x[2][1] = "Starting graceful shutdown: "}
                      |-> log.entries[e]])

SleepingEntry == Entry("INFO", <<"--- Sleeping">>)
CompleteEntry == Entry("INFO", <<"Bot shutdown complete.">>)

(* the environment's outcomes that fail a cycle: None or an Exception *)
PriceUnavailable == PriceReturnNone \/ PriceRaise
PositionUnavailable == PositionReturnNone \/ PositionRaise
CycleFailure == PriceUnavailable \/ PositionUnavailable \/ OrderRaise

----------------------------------------------------------------------------
(* C1: two invocations of graceful_shutdown during one run call the       *)
(* gateway's disconnect exactly once in total.                             *)
C1_ShutdownIdempotent ==
    GsInvocations = 2 => calls["disconnect"] = 1

(* C2: when run() has ended, by whatever path, disconnect has been         *)
(* attempted exactly once: never zero times and never twice.               *)
C2_DisconnectOncePerRun ==
    pc = "done" => calls["disconnect"] = 1

(* C3: a failed price read, position read or order placement (None or an   *)
(* Exception) does not end the loop: the error is logged, the inter-cycle  *)
(* sleep is entered, and when that sleep returns with no shutdown          *)
(* requested the next cycle starts with a fresh price read.                *)
C3_CycleIsolation ==
    [][ /\ CycleFailure =>
              /\ pc' = "sleep"
              /\ LevelCount(log', "ERROR") = LevelCount(log, "ERROR") + 1
              /\ log'.last = SleepingEntry
              /\ cycle' = cycle
        /\ (pc = "sleep" /\ cyc.errors > 0 /\ sleeps' = sleeps + 1
              /\ ~shutdown_requested) =>
              /\ pc' = "get_price"
              /\ cycle' = cycle + 1
              /\ calls'["get_token_price"] = calls["get_token_price"] + 1
      ]_vars

(* a second cycle is awaiting its price after the first one failed *)
C3_Witness ==
    /\ cycle = 2
    /\ pc = "get_price"
    /\ sleeps = 1
    /\ LevelCount(log, "ERROR") = 1
    /\ Count("ERROR", <<"An error occurred in the trading loop: ",
                        "Could not fetch price">>) = 1

(* C4: when the price read is unavailable (None or an Exception) the cycle *)
(* produces exactly one ERROR entry, attempts no position read, places no  *)
(* order, and goes to the sleep step.                                      *)
C4_PriceUnavailable ==
    [][ PriceUnavailable =>
          /\ LevelCount(log', "ERROR") = LevelCount(log, "ERROR") + 1
          /\ cyc'.errors = 1
          /\ cyc'.get_short_position = 0
          /\ cyc'.place_market_order = 0
          /\ calls'["get_short_position"] = calls["get_short_position"]
          /\ calls'["place_market_order"] = calls["place_market_order"]
          /\ pc' = "sleep"
          /\ log'.last = SleepingEntry
      ]_vars

(* the loop sleeps after a price read that raised *)
C4_Witness ==
    /\ pc = "sleep"
    /\ cyc.get_token_price = 1
    /\ cyc.errors = 1
    /\ cyc.get_short_position = 0
    /\ Count("ERROR", <<"An error occurred in the trading loop: ",
                        "get_token_price failed">>) = 1

(* C5: after a single shutdown request made from outside during the        *)
(* inter-cycle sleep no new cycle starts, and when run() has ended         *)
(* disconnect has been invoked exactly once.                               *)
C5_MidSleepShutdown ==
    /\ [][ext_in_sleep => cycle' = cycle]_vars
    /\ []((pc = "done" /\ ext_in_sleep /\ ext_calls = 1) => calls["disconnect"] = 1)

(* The short position after a market order is filled in full: a sell adds  *)
(* to the quantity get_short_position reports, a buy takes from it.  The   *)
(* result is the filled quantity times the denominator of the order size.  *)
FilledQtyTimesDen(qty, side, size) ==
    IF side = "sell" THEN qty * size.den + size.num ELSE qty * size.den - size.num

(* C6: with a price P > 0 and a position Q such that                       *)
(* |TARGET_SHORT_USD - Q*P| <= MIN_ORDER_USD the cycle places no order.    *)
C6_NoAction ==
    [][ \A q \in Positions :
          ( /\ PositionReturn(q)
            /\ frame.current_price.val > 0
            /\ Abs(TARGET_SHORT_USD - q * frame.current_price.val) <= MIN_ORDER_USD )
          => /\ calls'["place_market_order"] = calls["place_market_order"]
             /\ cyc'.place_market_order = 0
             /\ cyc'.errors = 0
             /\ pc' = "sleep"
      ]_vars

(* the loop sleeps after a decision taken on a deviation of 1, no order placed *)
C6_Witness ==
    /\ pc = "sleep"
    /\ pending = "none"
    /\ cyc.get_short_position = 1
    /\ cyc.errors = 0
    /\ cyc.place_market_order = 0
    /\ frame.current_price = Num(3)
    /\ frame.current_position_qty = Num(333)
    /\ frame.position_delta_usd = Num(1)

(* C7: with a price P > 0 and a position Q such that                       *)
(* |TARGET_SHORT_USD - Q*P| > MIN_ORDER_USD the cycle places exactly one   *)
(* order, of a quantity q with q*P = |TARGET_SHORT_USD - Q*P|, on the side *)
(* that brings the exposure to TARGET_SHORT_USD once filled in full.       *)
C7_Action ==
    /\ [][ \A q \in Positions :
             ( /\ PositionReturn(q)
               /\ frame.current_price.val > 0
               /\ Abs(TARGET_SHORT_USD - q * frame.current_price.val) > MIN_ORDER_USD )
             => /\ pc' = "place_order"
                /\ calls'["place_market_order"] = calls["place_market_order"] + 1
                /\ cyc'.place_market_order = 1
                /\ LET P == frame.current_price.val
                       size == frame'.order_size_qty
                   IN  /\ size.den # 0
                       /\ size.num * P = Abs(TARGET_SHORT_USD - q * P) * size.den
                       /\ FilledQtyTimesDen(q, frame'.order_side, size) * P
                            = TARGET_SHORT_USD * size.den
         ]_vars
    /\ [](cyc.place_market_order <= 1)

(* a buy order is in flight for a position above the target *)
C7_Witness ==
    /\ pc = "place_order"
    /\ frame.current_price = Num(100)
    /\ frame.current_position_qty = Num(333)
    /\ frame.order_side = "buy"
    /\ frame.order_size_qty = Frac(32300, 100)

(* C8 as stated: price 100, position quantity -8: the delta is 200 and a   *)
(* sell order of quantity 2 is placed.                                     *)
C8_ScenarioA_Stated ==
    [][ (PositionReturn(-8) /\ frame.current_price = Num(100))
        => /\ frame'.position_delta_usd = Num(200)
           /\ pc' = "place_order"
           /\ frame'.order_side = "sell"
           /\ frame'.order_size_qty.num = 2 * frame'.order_size_qty.den
      ]_vars

(* C8 amended: price 100, position quantity 8 as get_short_position        *)
(* reports a short of 8 units: the delta is 200 and one sell order of      *)
(* quantity 2 is placed.                                                   *)
C8_ScenarioA ==
    [][ (PositionReturn(8) /\ frame.current_price = Num(100))
        => /\ frame'.position_delta_usd = Num(200)
           /\ pc' = "place_order"
           /\ cyc'.place_market_order = 1
           /\ frame'.order_side = "sell"
           /\ frame'.order_size_qty.num = 2 * frame'.order_size_qty.den
      ]_vars

(* the sell order of scenario A is in flight *)
C8_Witness ==
    /\ pc = "place_order"
    /\ frame.current_price = Num(100)
    /\ frame.current_position_qty = Num(8)
    /\ frame.position_delta_usd = Num(200)
    /\ frame.order_side = "sell"
    /\ frame.order_size_qty = Frac(200, 100)

(* C9 as stated: price 100, position quantity -10: the delta is 0 and no   *)
(* order is placed.                                                        *)
C9_ScenarioB_Stated ==
    [][ (PositionReturn(-10) /\ frame.current_price = Num(100))
        => /\ frame'.position_delta_usd = Num(0)
           /\ calls'["place_market_order"] = calls["place_market_order"]
           /\ pc' = "sleep"
      ]_vars

(* C9 amended: price 100, position quantity 10 as get_short_position       *)
(* reports a short of 10 units: the delta is 0 and no order is placed.     *)
C9_ScenarioB ==
    [][ (PositionReturn(10) /\ frame.current_price = Num(100))
        => /\ frame'.position_delta_usd = Num(0)
           /\ calls'["place_market_order"] = calls["place_market_order"]
           /\ cyc'.place_market_order = 0
           /\ cyc'.errors = 0
           /\ pc' = "sleep"
      ]_vars

(* the loop sleeps after the decision of scenario B *)
C9_Witness ==
    /\ pc = "sleep"
    /\ pending = "none"
    /\ cyc.get_short_position = 1
    /\ cyc.errors = 0
    /\ cyc.place_market_order = 0
    /\ frame.current_price = Num(100)
    /\ frame.current_position_qty = Num(10)
    /\ frame.position_delta_usd = Num(0)

ConnectFailed == Count("ERROR", <<"Critical error: ", "connect failed">>) > 0

(* C10: when connect raises, run() goes straight to graceful_shutdown with *)
(* the error as reason and then to the final log; no price read, position  *)
(* read, order placement or inter-cycle sleep ever occurs in that run.     *)
C10_ConnectFailureFatal ==
    /\ [][ ConnectRaise =>
             /\ pc' = "gs_disconnect"
             /\ shutdown_requested'
             /\ calls'["disconnect"] = calls["disconnect"] + 1
             /\ log'.last = Entry("INFO", <<"Starting graceful shutdown: ",
                                            "Critical error: ", "connect failed">>)
         ]_vars
    /\ [][ (ConnectFailed /\ pc = "gs_disconnect" /\ pc' # pc) =>
             (pc' = "done" /\ log'.last = CompleteEntry) ]_vars
    /\ [](ConnectFailed =>
             /\ pc \in {"gs_disconnect", "done"}
             /\ cycle = 0
             /\ sleeps = 0
             /\ calls["get_token_price"] = 0
             /\ calls["get_short_position"] = 0
             /\ calls["place_market_order"] = 0
             /\ CopiesIn(SleepingEntry, log.entries) = 0)

(* run() has ended after a failed connect *)
C10_Witness ==
    /\ ConnectFailed
    /\ pc = "done"
    /\ log.last = CompleteEntry
    /\ calls["connect"] = 1

DisconnectErrorEntry ==
    Entry("ERROR", <<"Error during graceful shutdown: ", "disconnect failed">>)

(* C11: an Exception out of disconnect is logged and goes no further: the  *)
(* flag stays set, and run() goes on to its final log entry and ends.      *)
C11_DisconnectFailureLogged ==
    /\ [][ GsDisconnectRaise =>
             /\ CopiesIn(DisconnectErrorEntry, log'.entries)
                  = CopiesIn(DisconnectErrorEntry, log.entries) + 1
             /\ LevelCount(log', "ERROR") = LevelCount(log, "ERROR") + 1
             /\ shutdown_requested'
             /\ pc' = "done"
             /\ log'.last = CompleteEntry
         ]_vars
    /\ [][ ExtDisconnectRaise =>
             /\ CopiesIn(DisconnectErrorEntry, log'.entries)
                  = CopiesIn(DisconnectErrorEntry, log.entries) + 1
             /\ shutdown_requested'
             /\ pc' = pc
             /\ pending' = pending
         ]_vars
    /\ [][shutdown_requested => shutdown_requested']_vars

(* run() has ended after the disconnect of its own graceful_shutdown failed *)
C11_Witness ==
    /\ pc = "done"
    /\ ext_calls = 0
    /\ shutdown_requested
    /\ CopiesIn(DisconnectErrorEntry, log.entries) = 1
    /\ log.last = CompleteEntry

(* C12: a run that has stopped, on any path, has logged "Bot shutdown      *)
(* complete." exactly once, as the last thing run() did: no entry of run() *)
(* and no gateway call follows it, and it is not logged before the stop.   *)
C12_FinalLog ==
    /\ [](pc = "done" =>
            /\ log.last = CompleteEntry
            /\ CopiesIn(CompleteEntry, log.entries) = 1)
    /\ [](pc # "done" => CopiesIn(CompleteEntry, log.entries) = 0)
    /\ [][pc = "done" =>
            /\ pc' = "done"
            /\ log'.last = log.last
            /\ calls' = calls]_vars

(* run() has stopped after reading, at the top of the loop, the flag set   *)
(* by a request from outside                                               *)
C12_Witness ==
    /\ pc = "done"
    /\ cycle = 1
    /\ sleeps = 1
    /\ ext_calls = 1
    /\ GsInvocations = 1
    /\ log.last = CompleteEntry

(* C13: once shutdown has been requested during an inter-cycle sleep, the  *)
(* loop waits no further tick of that sleep: the sleep is cut short.       *)
C13_SleepCancellable ==
    [][(pc = "sleep" /\ ext_in_sleep) => sleep_left' = sleep_left]_vars

(* C14: once disconnect has been invoked, the loop makes no further        *)
(* get_token_price, get_short_position or place_market_order call.         *)
C14_NoCallAfterDisconnect ==
    [][calls["disconnect"] > 0 =>
         /\ calls'["get_token_price"] = calls["get_token_price"]
         /\ calls'["get_short_position"] = calls["get_short_position"]
         /\ calls'["place_market_order"] = calls["place_market_order"]]_vars

(* C15: a price <= 0 returned by the gateway fails the cycle before any    *)
(* decision is taken, so an order is placed only on a price > 0 and its    *)
(* quantity is strictly positive.                                          *)
C15_PriceValidated ==
    /\ [][ \A v \in Prices :
             (PriceReturn(v) /\ v <= 0) => (pc' = "sleep" /\ cyc'.errors = 1) ]_vars
    /\ [](pc = "place_order" =>
            /\ cyc.price.val > 0
            /\ frame.order_size_qty.num * frame.order_size_qty.den > 0)

(* an error of the settle wait or of the inter-cycle sleep has reached the *)
(* outer handler                                                           *)
FatalOutsideCycle ==
    \/ Count("ERROR", <<"Critical error: ", "sleep failed">>) > 0
    \/ Count("ERROR", <<"Critical error: ", "settle wait failed">>) > 0

ShutdownStarted(l, e) ==
    /\ l.last = Entry("INFO", <<"Starting graceful shutdown: ", "Critical error: ", e>>)
    /\ CopiesIn(Entry("ERROR", <<"Critical error: ", e>>), l.entries) = 1

(* C16: an Exception raised by the inter-cycle sleep or by the settle wait *)
(* is fatal: graceful_shutdown is invoked with the error message as reason *)
(* (flag set, disconnect attempted), no further cycle starts, and run()    *)
(* ends as soon as that graceful_shutdown is over.                         *)
C16_FatalOutsideCycle ==
    /\ [][ (SleepRaise \/ SettleRaise) =>
             /\ pc' = "gs_disconnect"
             /\ shutdown_requested'
             /\ calls'["disconnect"] = calls["disconnect"] + 1
             /\ cycle' = cycle
         ]_vars
    /\ [][SleepRaise => ShutdownStarted(log', "sleep failed")]_vars
    /\ [][SettleRaise => ShutdownStarted(log', "settle wait failed")]_vars
    /\ [](FatalOutsideCycle => pc \in {"gs_disconnect", "done"})
    /\ [][ FatalOutsideCycle =>
             /\ cycle' = cycle
             /\ calls'["get_token_price"] = calls["get_token_price"]
             /\ calls'["get_short_position"] = calls["get_short_position"]
             /\ calls'["place_market_order"] = calls["place_market_order"]
             /\ (pc' # pc => pc' = "done")
         ]_vars

(* run() has ended after its second inter-cycle sleep raised *)
C16_Witness ==
    /\ pc = "done"
    /\ cycle = 2
    /\ sleeps = 1
    /\ ext_calls = 0
    /\ Count("ERROR", <<"Critical error: ", "sleep failed">>) = 1
    /\ calls["disconnect"] = 1
    /\ shutdown_requested

(* C17: in one cycle each gateway operation is called at most once, in the *)
(* order price, position, order; the position is read only after the price *)
(* read of that cycle returned a number, an order is placed only after     *)
(* both reads of that cycle did, with the side and quantity computed from  *)
(* those two values; a failed order placement ends the cycle.              *)
C17_NoRetry ==
    /\ [](/\ cyc.get_token_price <= 1
          /\ cyc.get_short_position <= cyc.get_token_price
          /\ cyc.place_market_order <= cyc.get_short_position)
    /\ [](cyc.get_short_position = 1 => cyc.price.tag = "num")
    /\ [](cyc.place_market_order = 1 =>
            /\ cyc.price.tag = "num"
            /\ cyc.qty.tag = "num"
            /\ LET delta == TARGET_SHORT_USD - cyc.qty.val * cyc.price.val
               IN  /\ frame.order_size_qty = Frac(Abs(delta), cyc.price.val)
                   /\ frame.order_side = IF delta > 0 THEN "sell" ELSE "buy")
    /\ [][OrderRaise => (pc' = "sleep" /\ calls' = calls /\ cycle' = cycle)]_vars

(* the second cycle places an order after the first one, on other values,  *)
(* placed none                                                             *)
C17_Witness ==
    /\ cycle = 2
    /\ pc = "place_order"
    /\ Count("INFO", <<"Position is within target range. No action needed.">>) = 1
    /\ cyc.price = Num(100)
    /\ cyc.qty = Num(8)
    /\ cyc.place_market_order = 1
    /\ frame.order_size_qty = Frac(200, 100)

(* C18: provided every gateway call and every sleep eventually ends, once  *)
(* shutdown has been requested run() eventually stops, and it starts no    *)
(* cycle after the request; the flag, once set, is never cleared, and it   *)
(* changes only in a step that invokes graceful_shutdown.                  *)
C18_ShutdownLiveness ==
    /\ shutdown_requested ~> (pc = "done")
    /\ [][shutdown_requested => (shutdown_requested' /\ cycle' = cycle)]_vars
    /\ [][shutdown_requested' # shutdown_requested =>
            /\ GsInvocations' = GsInvocations + 1
            /\ calls'["disconnect"] = calls["disconnect"] + 1]_vars

(* run() has stopped after a request made from outside while the first     *)
(* cycle awaited its price; that cycle and its sleep were finished         *)
C18_Witness ==
    /\ pc = "done"
    /\ shutdown_requested
    /\ ext_calls = 1
    /\ ~ext_in_sleep
    /\ GsInvocations = 1
    /\ cycle = 1
    /\ sleeps = 1
    /\ cyc.get_short_position = 1

(* C19: cycles are strictly sequential and separated by a sleep: the first *)
(* price read follows the return of connect() and of the settle wait, a    *)
(* later cycle starts only from the inter-cycle sleep of the cycle before  *)
(* it, when that sleep has run its full time and returns, and so at the    *)
(* start of cycle n, and all through it, exactly n - 1 sleeps have         *)
(* completed, whatever cycle n - 1 came to.                                *)
C19_CyclesSequential ==
    /\ [][cycle' # cycle =>
            /\ cycle' = cycle + 1
            /\ pc' = "get_price"
            /\ \/ pc = "settle" /\ cycle = 0 /\ sleeps' = 0
               \/ /\ pc = "sleep" /\ cycle >= 1
                  /\ sleep_left = 0
                  /\ sleeps' = sleeps + 1]_vars
    /\ [](pc \in {"get_price", "get_position", "place_order", "sleep"} =>
            /\ cycle >= 1
            /\ sleeps = cycle - 1
            /\ calls["connect"] = 1
            /\ calls["get_token_price"] = cycle)
    /\ [](pc \in {"start", "connect", "settle"} =>
            cycle = 0 /\ calls["get_token_price"] = 0)
    /\ [][pc' = "settle" /\ pc # "settle" => pc = "connect"]_vars

(* a second cycle awaits its price after a first cycle that placed an      *)
(* order, one sleep having completed                                       *)
C19_Witness ==
    /\ cycle = 2
    /\ pc = "get_price"
    /\ sleeps = 1
    /\ calls["place_market_order"] = 1
    /\ calls["get_token_price"] = 2

====
